---- MODULE Spec2Model ----
(***************************************************************************)
(* Model of kv-utils (src/mod.ts): the batch write/delete engine multiSet  *)
(* / multiDelete, wipeKvStore, count and replaceLocalDataWithRemote over a *)
(* Deno KV store.  Store commits and single-item writes may fail           *)
(* nondeterministically.  Keys and values are small JSON-like values so    *)
(* that computeTransactionSize (JSON.stringify(x).length) is computed as   *)
(* the code computes it, including its TypeError on a bigint.              *)
(***************************************************************************)
EXTENDS Integers, Sequences, FiniteSets, TLC

\* ---------------------------------------------------------------------
\* Bounds of the model (scaled-down program limits and input sizes)
\* ---------------------------------------------------------------------
MaxItems == 2
MaxTransactionSizeB == 10
MaxValueSizeB == 4
MaxInput == 3

\* src/mod.ts lines 8-11, scaled
MAX_NUM_TRANSACTIONS == MaxItems
MAX_KV_VALUE_SIZE == MaxValueSizeB
MAX_TRANSACTION_SIZE == MaxTransactionSizeB
SIZE_LIMIT == MAX_TRANSACTION_SIZE - MAX_KV_VALUE_SIZE

\* ---------------------------------------------------------------------
\* JavaScript scalars used as key parts and values
\* ---------------------------------------------------------------------
Str(s) == [t |-> "str", v |-> s]
Num(d) == [t |-> "num", v |-> d]
Big(d) == [t |-> "bigint", v |-> d]
Absent == [t |-> "absent", v |-> <<>>]

\* UTF-16 code unit of the characters used
CharCode(c) == CASE c = "1" -> 49 [] c = "2" -> 50 [] c = "7" -> 55
                 [] c = "a" -> 97 [] c = "b" -> 98 [] c = "z" -> 122

RECURSIVE Sum(_)
Sum(s) == IF s = <<>> THEN 0 ELSE Head(s) + Sum(Tail(s))

\* JSON.stringify(x).length for a scalar; a bigint has no JSON form
\* (JSON.stringify throws a TypeError)
Serializable(x) == x.t # "bigint"
ScalarJsonLen(x) == IF x.t = "str" THEN Len(x.v) + 2 ELSE Len(x.v)

\* JSON.stringify(key).length for a key array: "[" parts joined by "," "]"
KeySerializable(k) == \A j \in 1..Len(k) : Serializable(k[j])
KeyJsonLen(k) == 2 + Sum([j \in 1..Len(k) |-> ScalarJsonLen(k[j])])
                 + (IF Len(k) > 0 THEN Len(k) - 1 ELSE 0)

\* ---------------------------------------------------------------------
\* Deno KV key ordering, as the key encoding orders it: part type
\* (Uint8Array < string < bigint < number < boolean; a bigint is encoded
\* with the integer tags 0x0b-0x1d, a number with the double tag 0x21),
\* then value; a proper prefix sorts first.
\* ---------------------------------------------------------------------
TypeRank(x) == CASE x.t = "str" -> 1 [] x.t = "bigint" -> 2 [] x.t = "num" -> 3

RECURSIVE CharsLess(_, _)
CharsLess(a, b) ==
  IF a = <<>> THEN b # <<>>
  ELSE IF b = <<>> THEN FALSE
  ELSE IF CharCode(Head(a)) # CharCode(Head(b)) THEN CharCode(Head(a)) < CharCode(Head(b))
  ELSE CharsLess(Tail(a), Tail(b))

\* numbers are written without leading zeros: shorter is smaller
DigitsLess(a, b) == IF Len(a) # Len(b) THEN Len(a) < Len(b) ELSE CharsLess(a, b)

PartLess(x, y) ==
  IF TypeRank(x) # TypeRank(y) THEN TypeRank(x) < TypeRank(y)
  ELSE IF x.t = "str" THEN CharsLess(x.v, y.v) ELSE DigitsLess(x.v, y.v)

RECURSIVE KeyLess(_, _)
KeyLess(a, b) ==
  IF a = <<>> THEN b # <<>>
  ELSE IF b = <<>> THEN FALSE
  ELSE IF Head(a) # Head(b) THEN PartLess(Head(a), Head(b))
  ELSE KeyLess(Tail(a), Tail(b))

\* keys and values of the model
KA   == <<Str(<<"a">>)>>
KA1  == <<Str(<<"a">>), Num(<<"1">>)>>
KA2  == <<Str(<<"a">>), Num(<<"2">>)>>
K1   == <<Num(<<"1">>)>>
KBIG == <<Big(<<"1">>)>>
KB1  == <<Str(<<"b">>), Num(<<"1">>)>>
KB2  == <<Str(<<"b">>), Num(<<"2">>)>>
Keys == {KA, KA1, KA2, K1, KBIG, KB1, KB2}

V7   == Num(<<"7">>)
VA   == Str(<<"a">>)
VAB  == Str(<<"a", "b">>)
VBIG == Big(<<"1">>)
Vals == {V7, VA, VAB, VBIG}

\* Deno.KvListSelector {prefix, start?, end?}; an optional bound is <<>>
\* when omitted and <<key>> when given
Sel(p, s, e) == [prefix |-> p, start |-> s, end |-> e]
Matches(sel, k) ==
  /\ Len(k) > Len(sel.prefix)
  /\ SubSeq(k, 1, Len(sel.prefix)) = sel.prefix
  /\ sel.start = <<>> \/ ~KeyLess(k, sel.start[1])
  /\ sel.end = <<>> \/ KeyLess(k, sel.end[1])

RECURSIVE SortKeys(_)
SortKeys(S) ==
  IF S = {} THEN <<>>
  ELSE LET m == CHOOSE k \in S : \A o \in S : o = k \/ KeyLess(k, o)
       IN <<m>> \o SortKeys(S \ {m})

\* mutant: only the first entry (page) of the listing is read
ListFirstPage(st, sel) ==
  LET L == SortKeys({k \in Keys : st[k] # Absent /\ Matches(sel, k)})
  IN SubSeq(L, 1, IF Len(L) > 0 THEN 1 ELSE 0)

\* kv.list(sel): the matching entries in key order
List(st, sel) == SortKeys({k \in Keys : st[k] # Absent /\ Matches(sel, k)})

\* ---------------------------------------------------------------------
\* State
\* ---------------------------------------------------------------------
VARIABLES
  store,    \* the local KV store (module-level kv): key -> value or Absent
  remote,   \* the remote KV store read by replaceLocalDataWithRemote
  top,      \* the public operation the caller invoked
  pc,       \* position of the running multiSet/multiDelete or mirror step
  fn,       \* "multiSet" or "multiDelete": the running batch call
  caller,   \* who awaits the batch call: "top", or a mirror step
  src,      \* multiDelete's source: <<>> for a key array, <<selector>>
  items,    \* the batch input in iteration order: [key, val]
  i,        \* next input position of the for-loop
  grp,      \* keysInAction: input positions staged in the current atomic
  cnt,      \* count
  tsize,    \* transactionSize
  failed,   \* failedKeys, as input positions (failedKeys[j] = items[failed[j]].key)
  after,    \* "loop" for a commit inside the for-loop, "end" for the last one
  rpos,     \* position in keysInAction of the individual retry
  log,      \* store interactions of the batch call, in order
  result,   \* the last MultiResult returned
  pre,      \* the store when the running batch call started
  msels,    \* replaceLocalDataWithRemote's prefixes: [given, sels]
  mj,       \* position in prefixes of the deleting loop
  mfailed,  \* replaceLocalDataWithRemote's failedKeys
  cntres,   \* the number returned by count / countAll (-1 before)
  \* history of the public call, for the properties
  origin,   \* the store when the public call started
  lfault,   \* a kv.list iteration threw during the call
  hfailed,  \* every key a single-item retry failed on, in order
  hok,      \* no store call (commit, set, delete, list) has thrown
  mtrace,   \* phases run by replaceLocalDataWithRemote
  cwlog,    \* writes of another caller made during the call
  rtkeys,   \* the keys a round trip wrote with multiSet and deletes again
  rtres     \* the numbers count / countAll returned during a round trip

vars == <<store, remote, top, pc, fn, caller, src, items, i, grp, cnt, tsize,
          failed, after, rpos, log, result, pre, msels, mj, mfailed,
          cntres, origin, lfault, hfailed, hok, mtrace, cwlog, rtkeys, rtres>>
ghost == <<origin, lfault, hfailed, hok, mtrace, cwlog, rtkeys, rtres>>

SelAll == Sel(<<>>, <<>>, <<>>)
SelA   == Sel(<<Str(<<"a">>)>>, <<>>, <<>>)
SelZ   == Sel(<<Str(<<"z">>)>>, <<>>, <<>>)
SelA2  == Sel(<<Str(<<"a">>)>>, <<>>, <<KA2>>)
SelB   == Sel(<<Str(<<"b">>)>>, <<>>, <<>>)
Selectors == {SelAll, SelA, SelZ, SelA2}

EmptyStore == [k \in Keys |-> Absent]
Store1 == [EmptyStore EXCEPT ![KA] = V7, ![KA1] = VA, ![K1] = VAB]
Store2 == [Store1 EXCEPT ![KBIG] = V7]
Store3 == [Store1 EXCEPT ![KA2] = V7]
InitStores == {EmptyStore, Store1, Store2, Store3}
Remote1 == [EmptyStore EXCEPT ![KA1] = VAB, ![KA2] = V7, ![K1] = V7]

SetKeys == {KB1, KB2}
Entry(k, v) == [key |-> k, val |-> v]
SeqsUpTo(S, n) == UNION {[1..m -> S] : m \in 0..n}
SetInputs == SeqsUpTo({Entry(k, v) : k \in SetKeys, v \in Vals}, MaxInput)
DelKeys == {KA, KA1, KA2, K1, KBIG}
DelInputs == SeqsUpTo(DelKeys, MaxInput)
NoPrefixes == [given |-> FALSE, sels |-> <<>>]
Prefixes(s) == [given |-> TRUE, sels |-> s]
PrefixLists == {NoPrefixes, Prefixes(<<SelA>>), Prefixes(<<SelZ>>),
                Prefixes(<<SelA, SelAll>>)}

\* mutant: the failure test of the return statement inverted to >= 0
MkResultAlwaysFailed(fk) == IF Len(fk) >= 0 THEN [ok |-> FALSE, failedKeys |-> fk]
                            ELSE [ok |-> TRUE]
\* the MultiResult object literal: { ok: false, failedKeys } or { ok: true }
MkResult(fk) == IF Len(fk) > 0 THEN [ok |-> FALSE, failedKeys |-> fk]
                ELSE [ok |-> TRUE]
NoResult == [none |-> TRUE]
ResFailed(r) == IF "failedKeys" \in DOMAIN r THEN r.failedKeys ELSE <<>>

FailedKeys == [j \in 1..Len(failed) |-> items[failed[j]].key]

\* computeTransactionSize: the size of the value for a set, of the key for
\* a delete
OpSerializable(j) == IF fn = "multiSet" THEN Serializable(items[j].val)
                     ELSE KeySerializable(items[j].key)
computeTransactionSize(j) == IF fn = "multiSet" THEN ScalarJsonLen(items[j].val)
                             ELSE KeyJsonLen(items[j].key)

\* mutants: the count test off by one; the size test dropped
SealOffByOne(c, ts) == c = MAX_NUM_TRANSACTIONS + 1 \/ ts > SIZE_LIMIT
SealCountOnly(c, ts) == c = MAX_NUM_TRANSACTIONS
\* the group is committed when ++count == MAX_NUM_TRANSACTIONS ||
\* transactionSize > SIZE_LIMIT (lines 31 / 84)
Seal(c, ts) == c = MAX_NUM_TRANSACTIONS \/ ts > SIZE_LIMIT

\* one set or delete of input position j applied to a store
ApplyOp(st, j) == IF fn = "multiSet" THEN [st EXCEPT ![items[j].key] = items[j].val]
                  ELSE [st EXCEPT ![items[j].key] = Absent]
\* mutant: the staged mutations applied last-to-first
RECURSIVE ApplyGroupReversed(_, _)
ApplyGroupReversed(st, g) ==
  IF g = <<>> THEN st ELSE ApplyOp(ApplyGroupReversed(st, Tail(g)), Head(g))
RECURSIVE ApplyGroup(_, _)
ApplyGroup(st, g) == IF g = <<>> THEN st ELSE ApplyGroup(ApplyOp(st, Head(g)), Tail(g))

Ev(kind, g, j, ok) == [kind |-> kind, grp |-> g, idx |-> j, ok |-> ok]

Init ==
  /\ store \in InitStores
  /\ remote = Remote1
  /\ top = "none"
  /\ pc = "idle"
  /\ fn = "none"
  /\ caller = "top"
  /\ src = <<>>
  /\ items = <<>>
  /\ i = 1
  /\ grp = <<>>
  /\ cnt = 0
  /\ tsize = 0
  /\ failed = <<>>
  /\ after = "loop"
  /\ rpos = 1
  /\ log = <<>>
  /\ result = NoResult
  /\ pre = store
  /\ msels = NoPrefixes
  /\ mj = 1
  /\ mfailed = <<>>
  /\ cntres = -1
  /\ origin = store
  /\ lfault = FALSE
  /\ hfailed = <<>>
  /\ hok = TRUE
  /\ mtrace = <<>>
  /\ cwlog = <<>>
  /\ rtkeys = <<>>
  /\ rtres = <<>>

\* entry of multiSet / multiDelete: the locals at lines 22-26 / 65-70
Begin(f, its, s, c) ==
  /\ fn' = f /\ items' = its /\ src' = s /\ caller' = c
  /\ i' = 1 /\ grp' = <<>> /\ cnt' = 0 /\ tsize' = 0 /\ failed' = <<>>
  /\ after' = "loop" /\ rpos' = 1 /\ log' = <<>> /\ pre' = store
  /\ pc' = IF s = <<>> THEN "loop" ELSE "list"

\* a public call starts
StartTop ==
  /\ origin' = store /\ cntres' = -1 /\ lfault' = FALSE /\ cwlog' = <<>>
  /\ hfailed' = <<>> /\ hok' = TRUE /\ rtkeys' = <<>> /\ rtres' = <<>>

\* multiSet(keyValues)
CallMultiSet ==
  /\ pc = "idle"
  /\ \E its \in SetInputs : Begin("multiSet", its, <<>>, "top")
  /\ top' = "multiSet"
  /\ StartTop /\ mtrace' = <<>>
  /\ UNCHANGED <<store, remote, result, msels, mj, mfailed>>

\* multiDelete(keys: Deno.KvKey[])
CallMultiDeleteKeys ==
  /\ pc = "idle"
  /\ \E ks \in DelInputs :
       Begin("multiDelete", [j \in 1..Len(ks) |-> Entry(ks[j], Absent)], <<>>, "top")
  /\ top' = "multiDelete"
  /\ StartTop /\ mtrace' = <<>>
  /\ UNCHANGED <<store, remote, result, msels, mj, mfailed>>

\* multiDelete(selector: Deno.KvListSelector)
CallMultiDeleteSel ==
  /\ pc = "idle"
  /\ \E sel \in Selectors : Begin("multiDelete", <<>>, <<sel>>, "top")
  /\ top' = "multiDelete"
  /\ StartTop /\ mtrace' = <<>>
  /\ UNCHANGED <<store, remote, result, msels, mj, mfailed>>

\* wipeKvStore(): multiDelete({ prefix: [] })
CallWipeKvStore ==
  /\ pc = "idle"
  /\ Begin("multiDelete", <<>>, <<SelAll>>, "top")
  /\ top' = "wipeKvStore"
  /\ StartTop /\ mtrace' = <<>>
  /\ UNCHANGED <<store, remote, result, msels, mj, mfailed>>

\* multiDelete lines 75-77: resolve the selector by listing the store
ListKeys ==
  /\ pc = "list"
  /\ LET L == List(store, src[1]) IN
       items' = [j \in 1..Len(L) |-> Entry(L[j], Absent)]
  /\ pc' = IF fn = "count" THEN "cloop" ELSE "loop"
  /\ UNCHANGED <<store, remote, top, fn, caller, src, i, grp, cnt, tsize, failed,
                 after, rpos, log, result, pre, msels, mj, mfailed, cntres>>
  /\ UNCHANGED ghost

\* mutant: a failing listing is caught and the call goes on with the keys
\* listed so far (none)
ListKeysFailSwallowed ==
  /\ pc = "list"
  /\ items' = <<>>
  /\ pc' = IF fn = "count" THEN "cloop" ELSE "loop"
  /\ lfault' = TRUE
  /\ hok' = FALSE
  /\ UNCHANGED <<store, remote, top, fn, caller, src, i, grp, cnt, tsize, failed,
                 after, rpos, log, result, pre, msels, mj, mfailed, cntres>>
  /\ UNCHANGED <<rtkeys, rtres, cwlog, origin, hfailed, mtrace>>

\* the kv.list iteration of multiDelete (75-77) or count (125-127) throws:
\* the error propagates out of the call (and out of a calling mirror)
ListKeysFail ==
  /\ pc = "list"
  /\ pc' = "listerr"
  /\ lfault' = TRUE
  /\ hok' = FALSE
  /\ UNCHANGED <<store, remote, top, fn, caller, src, items, i, grp, cnt, tsize, failed,
                 after, rpos, log, result, pre, msels, mj, mfailed, cntres>>
  /\ UNCHANGED <<rtkeys, rtres, cwlog, origin, hfailed, mtrace>>

\* count(prefix) (123-129): let count = 0; for await (...) count++
CallCount ==
  /\ pc = "idle"
  /\ \E sel \in Selectors : Begin("count", <<>>, <<sel>>, "top")
  /\ top' = "count"
  /\ StartTop /\ mtrace' = <<>>
  /\ UNCHANGED <<store, remote, result, msels, mj, mfailed>>

\* countAll() (135-137): count({ prefix: [] })
CallCountAll ==
  /\ pc = "idle"
  /\ Begin("count", <<>>, <<SelAll>>, "top")
  /\ top' = "countAll"
  /\ StartTop /\ mtrace' = <<>>
  /\ UNCHANGED <<store, remote, result, msels, mj, mfailed>>

CountItem ==
  /\ pc = "cloop"
  /\ i <= Len(items)
  /\ cnt' = cnt + 1
  /\ i' = i + 1
  /\ UNCHANGED <<store, remote, top, pc, fn, caller, src, items, grp, tsize, failed,
                 after, rpos, log, result, pre, msels, mj, mfailed, cntres>>
  /\ UNCHANGED ghost

\* return count
CountEnd ==
  /\ pc = "cloop"
  /\ i > Len(items)
  /\ cntres' = cnt
  /\ pc' = "done"
  /\ UNCHANGED <<store, remote, top, fn, caller, src, items, i, grp, cnt, tsize, failed,
                 after, rpos, log, result, pre, msels, mj, mfailed>>
  /\ UNCHANGED ghost

\* one iteration of the for-loop (multiSet 27-41, multiDelete 80-94):
\* stage the operation, add its size, and seal the group when
\* ++count == MAX_NUM_TRANSACTIONS or transactionSize > SIZE_LIMIT.
\* computeTransactionSize throws when JSON.stringify throws; the error
\* propagates out of the call (and out of a calling mirror).
LoopItem ==
  /\ pc = "loop"
  /\ i <= Len(items)
  /\ grp' = Append(grp, i)
  /\ IF ~OpSerializable(i)
       THEN /\ pc' = "threw"
            /\ UNCHANGED <<i, cnt, tsize, after>>
       ELSE LET ts == tsize + computeTransactionSize(i)
                c  == cnt + 1
            IN /\ tsize' = ts
               /\ cnt' = c
               /\ i' = i + 1
               /\ IF Seal(c, ts)
                    THEN pc' = "commit" /\ after' = "loop"
                    ELSE pc' = "loop" /\ after' = after
  /\ UNCHANGED <<store, remote, top, fn, caller, src, items, failed, rpos, log,
                 result, pre, msels, mj, mfailed, cntres>>
  /\ UNCHANGED ghost

\* mutant: the remainder is committed only when count > 1
LoopEndSkipsLast ==
  /\ pc = "loop"
  /\ i > Len(items)
  /\ pc' = IF cnt > 1 THEN "commit" ELSE "ret"
  /\ after' = "end"
  /\ UNCHANGED <<store, remote, top, fn, caller, src, items, i, grp, cnt, tsize,
                 failed, rpos, log, result, pre, msels, mj, mfailed, cntres>>
  /\ UNCHANGED ghost

\* end of the for-loop: commit the remainder when count > 0 (43-49 / 96-102)
LoopEnd ==
  /\ pc = "loop"
  /\ i > Len(items)
  /\ pc' = IF cnt > 0 THEN "commit" ELSE "ret"
  /\ after' = "end"
  /\ UNCHANGED <<store, remote, top, fn, caller, src, items, i, grp, cnt, tsize,
                 failed, rpos, log, result, pre, msels, mj, mfailed, cntres>>
  /\ UNCHANGED ghost

\* mutant: keysInAction not reset after a group
NextGroupKeepKeys ==
  IF after = "loop"
    THEN /\ pc' = "loop" /\ cnt' = 0 /\ tsize' = 0 /\ UNCHANGED grp
    ELSE /\ pc' = "ret" /\ UNCHANGED <<grp, cnt, tsize>>
\* after the group's commit or retry: reset the atomic (37-40 / 90-93) and
\* continue the loop, or go on to the return statement
NextGroup ==
  IF after = "loop"
    THEN /\ pc' = "loop" /\ grp' = <<>> /\ cnt' = 0 /\ tsize' = 0
    ELSE /\ pc' = "ret" /\ UNCHANGED <<grp, cnt, tsize>>

\* await atomic.commit() succeeds: every staged operation takes effect
CommitOk ==
  /\ pc = "commit"
  /\ store' = ApplyGroup(store, grp)
  /\ log' = Append(log, Ev("commit", grp, 0, TRUE))
  /\ NextGroup
  /\ UNCHANGED <<remote, top, fn, caller, src, items, i, failed, after, rpos,
                 result, pre, msels, mj, mfailed, cntres>>
  /\ UNCHANGED ghost

\* atomic.commit() throws: nothing takes effect; the catch hands
\* keysInAction to retrySetIndividually / retryDeleteIndividually
CommitFail ==
  /\ pc = "commit"
  /\ log' = Append(log, Ev("commit", grp, 0, FALSE))
  /\ pc' = "retry"
  /\ rpos' = 1
  /\ UNCHANGED <<store, remote, top, fn, caller, src, items, i, grp, cnt, tsize,
                 failed, after, result, pre, msels, mj, mfailed, cntres>>
  /\ hok' = FALSE
  /\ UNCHANGED <<rtkeys, rtres, cwlog, origin, lfault, hfailed, mtrace>>

\* mutant: the try/catch wraps the whole retry loop, so the first failing
\* item ends the retry
RetryItemStopAtFailure ==
  /\ pc = "retry"
  /\ rpos <= Len(grp)
  /\ \/ /\ store' = ApplyOp(store, grp[rpos])
        /\ log' = Append(log, Ev("item", <<>>, grp[rpos], TRUE))
        /\ UNCHANGED <<failed, hfailed, hok>>
        /\ rpos' = rpos + 1
     \/ /\ failed' = Append(failed, grp[rpos])
        /\ log' = Append(log, Ev("item", <<>>, grp[rpos], FALSE))
        /\ hfailed' = Append(hfailed, items[grp[rpos]].key)
        /\ hok' = FALSE
        /\ UNCHANGED store
        /\ rpos' = Len(grp) + 1
  /\ UNCHANGED <<remote, top, pc, fn, caller, src, items, i, grp, cnt, tsize,
                 after, result, pre, msels, mj, mfailed, cntres>>
  /\ UNCHANGED <<rtkeys, rtres, cwlog, origin, lfault, mtrace>>

\* retrySetIndividually / retryDeleteIndividually (208-235): one
\* kv.set(key, keyValues.get(key)) or kv.delete(key) per key; a throwing
\* one is pushed on failedKeys (the retry's list is appended to the
\* caller's failedKeys in the same order)
RetryItem ==
  /\ pc = "retry"
  /\ rpos <= Len(grp)
  /\ \/ /\ store' = ApplyOp(store, grp[rpos])
        /\ log' = Append(log, Ev("item", <<>>, grp[rpos], TRUE))
        /\ UNCHANGED <<failed, hfailed, hok>>
     \/ /\ failed' = Append(failed, grp[rpos])
        /\ log' = Append(log, Ev("item", <<>>, grp[rpos], FALSE))
        /\ hfailed' = Append(hfailed, items[grp[rpos]].key)
        /\ hok' = FALSE
        /\ UNCHANGED store
  /\ rpos' = rpos + 1
  /\ UNCHANGED <<remote, top, pc, fn, caller, src, items, i, grp, cnt, tsize,
                 after, result, pre, msels, mj, mfailed, cntres>>
  /\ UNCHANGED <<rtkeys, rtres, cwlog, origin, lfault, mtrace>>

RetryEnd ==
  /\ pc = "retry"
  /\ rpos > Len(grp)
  /\ NextGroup
  /\ UNCHANGED <<store, remote, top, fn, caller, src, items, i, failed, after,
                 rpos, log, result, pre, msels, mj, mfailed, cntres>>
  /\ UNCHANGED ghost

\* the return statement (51-53 / 104-106) and the awaiting caller
Ret ==
  /\ pc = "ret"
  /\ LET res == MkResult(FailedKeys) IN
       /\ result' = res
       /\ CASE caller = "top" ->
                 pc' = "done" /\ UNCHANGED <<mfailed, mj>>
            [] caller = "m_del" ->
                 \* replaceLocalDataWithRemote 160-164
                 /\ mfailed' = mfailed \o ResFailed(res)
                 /\ mj' = mj + 1
                 /\ pc' = "m_del"
            [] caller = "m_wipe" ->
                 \* line 167: the result of wipeKvStore() is discarded
                 pc' = "m_fetch" /\ UNCHANGED <<mfailed, mj>>
            [] caller = "m_set" ->
                 \* replaceLocalDataWithRemote 191-198
                 /\ mfailed' = mfailed \o ResFailed(res)
                 /\ pc' = "m_end"
                 /\ UNCHANGED mj
  /\ UNCHANGED <<store, remote, top, fn, caller, src, items, i, grp, cnt, tsize,
                 failed, after, rpos, log, pre, msels, cntres>>
  /\ UNCHANGED ghost

\* a round trip (mod_test.ts): after multiSet(keyValues) returned, the
\* caller counts the written keys with count({ prefix: ["b"] }) and
\* countAll(), deletes them with multiDelete(keys) and calls countAll()
CallRoundTripCount ==
  /\ pc = "done"
  /\ top = "multiSet"
  /\ Begin("count", <<>>, <<SelB>>, "top")
  /\ top' = "rt_count"
  /\ rtkeys' = [j \in 1..Len(items) |-> items[j].key]
  /\ UNCHANGED <<store, remote, msels, mj, mfailed, rtres>>
  /\ result' = NoResult /\ cntres' = -1
  /\ UNCHANGED <<origin, lfault, hfailed, hok, mtrace, cwlog>>

CallRoundTripCountAll ==
  /\ pc = "done"
  /\ top = "rt_count"
  /\ Begin("count", <<>>, <<SelAll>>, "top")
  /\ top' = "rt_countAll"
  /\ rtres' = Append(rtres, cntres)
  /\ UNCHANGED <<store, remote, msels, mj, mfailed, rtkeys>>
  /\ result' = NoResult /\ cntres' = -1
  /\ UNCHANGED <<origin, lfault, hfailed, hok, mtrace, cwlog>>

CallRoundTripDelete ==
  /\ pc = "done"
  /\ top = "rt_countAll"
  /\ Begin("multiDelete", [j \in 1..Len(rtkeys) |-> Entry(rtkeys[j], Absent)], <<>>, "top")
  /\ top' = "roundtrip"
  /\ rtres' = Append(rtres, cntres)
  /\ UNCHANGED <<store, remote, msels, mj, mfailed, rtkeys>>
  /\ result' = NoResult /\ cntres' = -1
  /\ UNCHANGED <<origin, lfault, hfailed, hok, mtrace, cwlog>>

CallRoundTripCountAll2 ==
  /\ pc = "done"
  /\ top = "roundtrip"
  /\ Begin("count", <<>>, <<SelAll>>, "top")
  /\ top' = "rt_countAll2"
  /\ UNCHANGED <<store, remote, msels, mj, mfailed, rtkeys, rtres>>
  /\ result' = NoResult /\ cntres' = -1
  /\ UNCHANGED <<origin, lfault, hfailed, hok, mtrace, cwlog>>

\* replaceLocalDataWithRemote(remoteKvUrl, prefixes?)
CallReplace ==
  /\ pc = "idle"
  /\ top' = "replaceLocalDataWithRemote"
  /\ \E ps \in PrefixLists :
       /\ msels' = ps
       /\ IF ps.given
            THEN /\ pc' = "m_del"
                 /\ UNCHANGED <<fn, caller, src, items, i, grp, cnt, tsize,
                                failed, after, rpos, log, pre>>
            \* line 167: await wipeKvStore()
            ELSE Begin("multiDelete", <<>>, <<SelAll>>, "m_wipe")
  /\ mj' = 1
  /\ mfailed' = <<>>
  /\ StartTop
  /\ mtrace' = IF msels'.given THEN <<>> ELSE <<"delete">>
  /\ UNCHANGED <<store, remote, result>>

\* lines 159-160: multiDelete(prefix) for the next prefix
MirrorDelete ==
  /\ pc = "m_del"
  /\ mj <= Len(msels.sels)
  /\ Begin("multiDelete", <<>>, <<msels.sels[mj]>>, "m_del")
  /\ UNCHANGED <<store, remote, top, result, msels, mj, mfailed, cntres>>
  /\ mtrace' = Append(mtrace, "delete")
  /\ UNCHANGED <<rtkeys, rtres, cwlog, origin, lfault, hfailed, hok>>

\* mutant: only the first prefix is fetched from the remote store
ListAllFirstOnly(st, sels) ==
  IF sels = <<>> THEN <<>>
  ELSE LET L == List(st, Head(sels)) IN [j \in 1..Len(L) |-> Entry(L[j], st[L[j]])]

RECURSIVE ListAll(_, _)
\* the remote entries listed for each prefix in turn (172-180); every
\* listed entry carries a fresh key object, so data.set appends it
ListAll(st, sels) ==
  IF sels = <<>> THEN <<>>
  ELSE LET L == List(st, Head(sels)) IN
       [j \in 1..Len(L) |-> Entry(L[j], st[L[j]])] \o ListAll(st, Tail(sels))

\* lines 169-191: open the remote store, collect its entries into data,
\* and call multiSet(data)
MirrorFetch ==
  /\ \/ pc = "m_del" /\ mj > Len(msels.sels)
     \/ pc = "m_fetch"
  /\ LET data == IF msels.given THEN ListAll(remote, msels.sels)
                 ELSE ListAll(remote, <<SelAll>>)
     IN Begin("multiSet", data, <<>>, "m_set")
  /\ UNCHANGED <<store, remote, top, result, msels, mj, mfailed, cntres>>
  /\ mtrace' = mtrace \o <<"fetch", "write">>
  /\ UNCHANGED <<rtkeys, rtres, cwlog, origin, lfault, hfailed, hok>>

\* lines 169-189 throw: Deno.openKv(remoteKvUrl) or the remote
\* remoteKv.list iteration fails; nothing catches it, so the call rejects
\* after the delete phase and multiSet is never called
MirrorFetchFail ==
  /\ \/ pc = "m_del" /\ mj > Len(msels.sels)
     \/ pc = "m_fetch"
  /\ pc' = "remoteerr"
  /\ mtrace' = Append(mtrace, "fetch")
  /\ hok' = FALSE
  /\ UNCHANGED <<store, remote, top, fn, caller, src, items, i, grp, cnt, tsize,
                 failed, after, rpos, log, result, pre, msels, mj, mfailed, cntres>>
  /\ UNCHANGED <<rtkeys, rtres, cwlog, origin, lfault, hfailed>>

\* lines 203-205
MirrorEnd ==
  /\ pc = "m_end"
  /\ result' = MkResult(mfailed)
  /\ pc' = "done"
  /\ UNCHANGED <<store, remote, top, fn, caller, src, items, i, grp, cnt, tsize,
                 failed, after, rpos, log, pre, msels, mj, mfailed, cntres>>
  /\ mtrace' = Append(mtrace, "done")
  /\ UNCHANGED <<rtkeys, rtres, cwlog, origin, lfault, hfailed, hok>>

Next ==
  \/ CallMultiSet \/ CallMultiDeleteKeys \/ CallMultiDeleteSel
  \/ CallWipeKvStore \/ CallReplace \/ CallRoundTripCount
  \/ CallRoundTripCountAll \/ CallRoundTripDelete \/ CallRoundTripCountAll2
  \/ CallCount \/ CallCountAll \/ CountItem \/ CountEnd \/ ListKeysFail
  \/ ListKeys \/ LoopItem \/ LoopEnd \/ CommitOk \/ CommitFail
  \/ RetryItem \/ RetryEnd \/ Ret
  \/ MirrorDelete \/ MirrorFetch \/ MirrorFetchFail \/ MirrorEnd

Spec == Init /\ [][Next]_vars
\* every call runs to its end: the awaited store calls return

\* ---------------------------------------------------------------------
\* Observations of a batch call, used by the properties
\* ---------------------------------------------------------------------
Range(f) == {f[x] : x \in DOMAIN f}
CommitEvs == {e \in 1..Len(log) : log[e].kind = "commit"}
\* the groups handed to atomic.commit(), in commit order
RECURSIVE GroupsFrom(_)
GroupsFrom(e) == IF e > Len(log) THEN <<>>
                 ELSE IF log[e].kind = "commit" THEN <<log[e].grp>> \o GroupsFrom(e + 1)
                 ELSE GroupsFrom(e + 1)
Groups == GroupsFrom(1)
RECURSIVE Concat(_)
Concat(gs) == IF gs = <<>> THEN <<>> ELSE Head(gs) \o Concat(Tail(gs))
GroupSize(g) == Sum([p \in 1..Len(g) |-> computeTransactionSize(g[p])])
Positions == 1..Len(items)
\* input position j took effect: its group committed, or its own retry did
Applied(j) == \E e \in 1..Len(log) :
                /\ log[e].ok
                /\ \/ log[e].kind = "commit" /\ j \in Range(log[e].grp)
                   \/ log[e].kind = "item" /\ log[e].idx = j
FailedSet == Range(failed)
SucceededSet == {j \in Positions : Applied(j)}
KeyCount(st) == Cardinality({k \in Keys : st[k] # Absent})
NoDupKeys == \A p, q \in Positions : p # q => items[p].key # items[q].key
\* a key was written (set or deleted) by the call
Written(k) == \E j \in Positions : items[j].key = k /\ Applied(j)
LastVal(k) == items[CHOOSE j \in Positions :
                      items[j].key = k /\ \A q \in Positions : items[q].key = k => q <= j].val
NoStoreFailure == \A e \in 1..Len(log) : log[e].ok
BatchTop == top \in {"multiSet", "multiDelete", "wipeKvStore"}

\* C1: every key submitted to multiSet/multiDelete ends up in exactly one
\* outcome, failed or succeeded, never both and never omitted, whatever
\* commits and single-item writes fail; so the call always returns its
\* Result.
C1_ResultCompleteness ==
  /\ pc # "threw"
  /\ pc = "ret" =>
       /\ FailedSet \cap SucceededSet = {}
       /\ FailedSet \cup SucceededSet = Positions
       /\ Len(failed) + Cardinality(SucceededSet) = Len(items)

\* C2 (as stated): after multiSet returns every input key not in failedKeys
\* holds its input value and no key in failedKeys was written; after
\* multiDelete returns every resolved key not in failedKeys is absent and no
\* key in failedKeys was changed.
AccountingOk ==
  LET FK == Range(FailedKeys) IN
  /\ \A j \in Positions : items[j].key \notin FK =>
        store[items[j].key] = (IF fn = "multiSet" THEN LastVal(items[j].key) ELSE Absent)
  /\ \A k \in FK : ~Written(k)
C2_PreciseAccounting == pc = "ret" => AccountingOk
\* C2 (amended): the same holds for every input in which no key occurs twice.
C2_PreciseAccountingDistinct == (pc = "ret" /\ NoDupKeys) => AccountingOk
C2_Witness == pc = "ret" /\ NoDupKeys /\ failed # <<>> /\ SucceededSet # {}

\* C3: every Result returned by multiSet, multiDelete, wipeKvStore and
\* replaceLocalDataWithRemote has ok = true exactly when failedKeys is
\* absent, and ok = false exactly when failedKeys is a non-empty list of the
\* keys that failed.
C3_ResultShape ==
  /\ "ok" \in DOMAIN result =>
       /\ result.ok <=> ~("failedKeys" \in DOMAIN result)
       /\ ~result.ok <=> ("failedKeys" \in DOMAIN result /\ Len(result.failedKeys) > 0)
  /\ (pc = "done" /\ BatchTop) => (result.ok <=> failed = <<>>)
  /\ (pc = "done" /\ top = "replaceLocalDataWithRemote") => (result.ok <=> mfailed = <<>>)
C3_Witness == pc = "done" /\ top = "replaceLocalDataWithRemote" /\ ~result.ok

\* C4 (as stated): every group holds at most MAX_NUM_TRANSACTIONS
\* operations, and N small items are committed in ceil(N / MAX) groups with
\* all N keys ending up in the store.
SmallItems == \A j \in Positions : OpSerializable(j) /\
                computeTransactionSize(j) * MAX_NUM_TRANSACTIONS <= SIZE_LIMIT
CeilGroups(n) == (n + MAX_NUM_TRANSACTIONS - 1) \div MAX_NUM_TRANSACTIONS
GroupsBounded == \A q \in 1..Len(Groups) : Len(Groups[q]) <= MAX_NUM_TRANSACTIONS
C4_GroupCount ==
  /\ GroupsBounded
  /\ (pc = "ret" /\ fn = "multiSet" /\ SmallItems) =>
       /\ Len(Groups) = CeilGroups(Len(items))
       /\ \A j \in Positions : store[items[j].key] # Absent
\* C4 (amended): the same, with "all N keys" replaced by "every key not in
\* failedKeys" (all N when the Result is ok).
C4_GroupCountAmended ==
  /\ GroupsBounded
  /\ (pc = "ret" /\ fn = "multiSet" /\ SmallItems) =>
       /\ Len(Groups) = CeilGroups(Len(items))
       /\ \A j \in Positions : items[j].key \notin Range(FailedKeys) =>
             store[items[j].key] # Absent
C4_Witness == pc = "ret" /\ fn = "multiSet" /\ SmallItems
              /\ Len(items) > MAX_NUM_TRANSACTIONS

\* C5 (as stated): every group of more than one operation has cumulative
\* size at most SIZE_LIMIT.
C5_SizeBound == \A q \in 1..Len(Groups) :
                  Len(Groups[q]) > 1 => GroupSize(Groups[q]) <= SIZE_LIMIT

\* C6 (as stated): an operation that exceeds the remaining budget of a
\* non-empty group is not added to it but starts a new group.
C6_NoOverflowAdd == \A q \in 1..Len(Groups) : \A p \in 2..Len(Groups[q]) :
                      GroupSize(SubSeq(Groups[q], 1, p)) <= SIZE_LIMIT

\* C7: concatenating the groups in commit order reproduces the input
\* exactly; an empty input commits nothing, changes nothing and is ok.
C7_Partition ==
  /\ pc \in {"ret", "threw"} => Concat(Groups) = [j \in Positions |-> j]
  /\ (pc = "ret" /\ items = <<>>) =>
        Groups = <<>> /\ store = pre /\ MkResult(FailedKeys).ok

\* C8: one atomic commit attempt per group; a failed commit leaves the
\* store untouched and hands the whole, unmodified group to the per-item
\* fallback; no group is committed twice.
C8_OneCommitPerGroup ==
  /\ [][(pc = "commit" /\ pc' = "retry") =>
          store' = store /\ grp' = grp /\ rpos' = 1]_vars
  /\ [](\A e1, e2 \in CommitEvs : e1 # e2 => Range(log[e1].grp) \cap Range(log[e2].grp) = {})
  /\ [](\A e \in CommitEvs : (~log[e].ok /\ e < Len(log)) =>
          log[e + 1].kind = "item" /\ log[e + 1].idx = log[e].grp[1])
C8_Witness == \E e \in CommitEvs : ~log[e].ok /\ e + 1 < Len(log) /\ Len(log[e].grp) > 1

\* C9: after a failed commit every operation of the group is tried on its
\* own exactly once, in group order; each failure is recorded in failedKeys
\* and the remaining items and later groups are still tried.
ItemFailures == SelectSeq([e \in 1..Len(log) |-> log[e]],
                          LAMBDA ev : ev.kind = "item" /\ ~ev.ok)
C9_FallbackEach ==
  /\ failed = [x \in 1..Len(ItemFailures) |-> ItemFailures[x].idx]
  /\ pc = "ret" =>
       /\ Concat(Groups) = [j \in Positions |-> j]
       /\ \A e \in CommitEvs : ~log[e].ok =>
            \A p \in 1..Len(log[e].grp) :
               /\ e + p <= Len(log)
               /\ log[e + p].kind = "item"
               /\ log[e + p].idx = log[e].grp[p]
C9_Witness == pc = "ret" /\ \E e \in CommitEvs :
                ~log[e].ok /\ Len(log[e].grp) > 1 /\ ~log[e + 1].ok

\* C10 (as stated): multiDelete of keys none of which is in the store
\* never lists them in failedKeys and leaves the key count unchanged.
AllAbsent == \A j \in Positions : pre[items[j].key] = Absent
C10_DeleteAbsent == (pc = "done" /\ top = "multiDelete" /\ AllAbsent) =>
                      result.ok /\ KeyCount(store) = KeyCount(pre)
\* C10 (amended): such a call leaves the key count unchanged, and lists a
\* key in failedKeys only when a store call failed (its group's commit and
\* its own kv.delete both threw); with no store failure the Result is ok.
C10_DeleteAbsentAmended ==
  (pc = "done" /\ top = "multiDelete" /\ AllAbsent) =>
     /\ KeyCount(store) = KeyCount(pre)
     /\ NoStoreFailure => result.ok
     /\ \A j \in FailedSet : \E e1, e2 \in 1..Len(log) :
           /\ log[e1].kind = "commit" /\ ~log[e1].ok /\ j \in Range(log[e1].grp)
           /\ log[e2].kind = "item" /\ ~log[e2].ok /\ log[e2].idx = j
C10_Witness == pc = "done" /\ top = "multiDelete" /\ AllAbsent /\ items # <<>>

\* C11: with no failures, writing N new distinct keys with multiSet and
\* counting them with a selector matching exactly those keys (count of the
\* prefix ["b"], which no key had before) returns N and countAll grows by
\* N; deleting the same N keys with multiDelete brings countAll back to
\* its value before the write and leaves every other key as it was.
RTKeySet == Range(rtkeys)
RTNew ==
  /\ \A p, q \in 1..Len(rtkeys) : p # q => rtkeys[p] # rtkeys[q]
  /\ \A k \in RTKeySet : origin[k] = Absent
  /\ {k \in Keys : origin[k] # Absent /\ Matches(SelB, k)} = {}
C11_RoundTrip ==
  /\ (pc = "done" /\ top = "rt_countAll" /\ hok /\ RTNew) =>
        /\ rtres[1] = Len(rtkeys)
        /\ cntres = KeyCount(origin) + Len(rtkeys)
        /\ \A k \in RTKeySet : store[k] # Absent
  /\ (pc = "done" /\ top = "rt_countAll2" /\ hok /\ RTNew) =>
        /\ rtres[1] = Len(rtkeys)
        /\ rtres[2] = KeyCount(origin) + Len(rtkeys)
        /\ cntres = KeyCount(origin)
        /\ \A k \in Keys \ RTKeySet : store[k] = origin[k]
C11_Witness == pc = "done" /\ top = "rt_countAll2" /\ hok /\ RTNew
               /\ Len(rtkeys) = 2 /\ KeyCount(origin) > 0
\* C12 (as stated): multiDelete with a range selector deletes exactly the
\* entries the selector matched at listing time and no others.
SelMatched == {k \in Keys : origin[k] # Absent /\ Matches(src[1], k)}
SelDeleteDone == pc = "done" /\ top = "multiDelete" /\ src # <<>>
C12_SelectorDelete ==
  SelDeleteDone =>
    \A k \in Keys : store[k] = IF k \in SelMatched THEN Absent ELSE origin[k]
\* C12 (amended): every matched entry not in failedKeys is deleted, every
\* matched entry in failedKeys is left as it was, no unmatched entry is
\* touched, and with no store failure exactly the matched entries (as many
\* as count(selector) reports beforehand) are removed.
C12_SelectorDeleteAmended ==
  SelDeleteDone =>
    /\ \A k \in Keys \ SelMatched : store[k] = origin[k]
    /\ \A k \in SelMatched :
          store[k] = IF k \in Range(FailedKeys) THEN origin[k] ELSE Absent
    /\ hok => KeyCount(origin) - KeyCount(store) = Cardinality(SelMatched)
C12_Witness == SelDeleteDone /\ src = <<SelA2>> /\ origin[KA2] # Absent
               /\ KeyCount(origin) - KeyCount(store) = 1
\* C13: replaceLocalDataWithRemote returns ok exactly when no local delete
\* and no local write failed, and its failedKeys is the union (in order) of
\* the delete failures and the write failures, with and without prefixes.
MirrorDone == pc = "done" /\ top = "replaceLocalDataWithRemote"
C13_MirrorResult ==
  MirrorDone => /\ result.ok <=> hfailed = <<>>
                /\ ResFailed(result) = hfailed
\* C14: with no failures, replaceLocalDataWithRemote without prefixes
\* leaves the local store equal to the remote store: the remote keys with
\* the remote values and no other key.
C14_MirrorAll == (MirrorDone /\ ~msels.given /\ hok) => store = remote
C14_Witness == MirrorDone /\ ~msels.given /\ hok
               /\ \E k \in Keys : origin[k] # Absent /\ remote[k] = Absent

\* C15: with no failures, replaceLocalDataWithRemote with prefixes leaves
\* every local key matched by no prefix unchanged and makes the matched
\* local entries equal to the matched remote entries.
MatchedByAny(k) == \E j \in 1..Len(msels.sels) : Matches(msels.sels[j], k)
C15_MirrorPart ==
  (MirrorDone /\ msels.given /\ hok) =>
     \A k \in Keys : store[k] = IF MatchedByAny(k) THEN remote[k] ELSE origin[k]
C15_Witness == MirrorDone /\ msels.given /\ hok
               /\ origin[KA] # Absent /\ store[KA] = origin[KA]
               /\ origin[KA1] # remote[KA1] /\ store[KA1] = remote[KA1]
\* C16: when the listing of multiDelete(selector) or count fails, the call
\* fails with the error: it returns no Result or count, and it has deleted
\* nothing.
C16_ListingFault ==
  lfault => /\ pc = "listerr"
            /\ store = pre
            /\ cntres = -1
            /\ caller = "top" => result = NoResult
C16_Witness == lfault /\ top = "multiDelete" /\ List(pre, src[1]) # <<>>

\* C17: count(selector) returns the number of entries the selector matches,
\* and countAll() returns the number of all entries.
C17_Count ==
  /\ (pc = "done" /\ top = "count") =>
        cntres = Cardinality({k \in Keys : store[k] # Absent /\ Matches(src[1], k)})
  /\ (pc = "done" /\ top = "countAll") => cntres = KeyCount(store)
C17_Witness == pc = "done" /\ top \in {"count", "countAll"} /\ cntres > 1
\* C18: within one multiSet/multiDelete call the groups are processed one
\* after another: no operation of a later group is committed or retried
\* before an earlier group's commit and fallback are finished, and no
\* operation is applied both by a successful commit and by a retry.
ItemEvs == {e \in 1..Len(log) : log[e].kind = "item"}
C18_GroupsSequential ==
  /\ \A e1, e2 \in CommitEvs : e1 < e2 =>
        \A p \in Range(log[e1].grp), q \in Range(log[e2].grp) : p < q
  /\ \A e \in ItemEvs : \E c \in CommitEvs :
        /\ c < e /\ ~log[c].ok /\ log[e].idx \in Range(log[c].grp)
        /\ \A c2 \in CommitEvs : ~(c < c2 /\ c2 < e)
  /\ \A e \in ItemEvs, c \in CommitEvs : log[c].ok => log[e].idx \notin Range(log[c].grp)
C18_Witness == \E c1, c2 \in CommitEvs : c1 + 1 < c2 /\ ~log[c1].ok
\* C19: replaceLocalDataWithRemote runs Deleting, Fetching-Remote,
\* Writing-Local and Done in this order, and a failed delete never ends
\* the run early: every prefix is deleted, then the remote is fetched and
\* the local store written: a multiDelete of the delete phase does not
\* throw out of the run (only the write phase's multiSet may).
MirrorDels == [j \in 1..(IF msels.given THEN Len(msels.sels) ELSE 1) |-> "delete"]
C19_MirrorPhases ==
  /\ MirrorDone => mtrace = MirrorDels \o <<"fetch", "write", "done">>
  /\ (top = "replaceLocalDataWithRemote" /\ pc = "threw") => caller = "m_set"
\* C20: when a key occurs more than once in a multiSet input and nothing
\* fails, the store ends with the value of its last occurrence.
C20_LastWriteWins ==
  (pc = "ret" /\ fn = "multiSet" /\ hok) =>
     \A j \in Positions : store[items[j].key] = LastVal(items[j].key)
C20_Witness == pc = "ret" /\ fn = "multiSet" /\ hok
               /\ \E p, q \in Positions : p < q /\ items[p].key = items[q].key
                                         /\ items[p].val # items[q].val
                                         /\ q <= MAX_NUM_TRANSACTIONS
\* C21: every group's cumulative size is at most SIZE_LIMIT plus the size of
\* its last operation, so a group whose operations are each at most
\* MAX_KV_VALUE_SIZE stays within MAX_TRANSACTION_SIZE.
LastOpSize(g) == computeTransactionSize(g[Len(g)])
C21_GroupWithinTxSize == \A q \in 1..Len(Groups) :
  /\ GroupSize(Groups[q]) <= SIZE_LIMIT + LastOpSize(Groups[q])
  /\ (\A p \in 1..Len(Groups[q]) : computeTransactionSize(Groups[q][p]) <= MAX_KV_VALUE_SIZE)
        => GroupSize(Groups[q]) <= MAX_TRANSACTION_SIZE
C21_Witness == \E q \in 1..Len(Groups) :
  /\ GroupSize(Groups[q]) > SIZE_LIMIT /\ Len(Groups[q]) > 1
  /\ \A p \in 1..Len(Groups[q]) : computeTransactionSize(Groups[q][p]) <= MAX_KV_VALUE_SIZE
\* another caller writes or deletes a key of the store while a
\* multiDelete(selector) call is running (the store serialises single writes)
MaxConcWrites == 1
ConcurrentWrite ==
  /\ top = "multiDelete" /\ src # <<>>
  /\ pc \in {"list", "loop", "commit", "retry", "ret"}
  /\ Len(cwlog) < MaxConcWrites
  /\ \E k \in Keys \ {KBIG}, v \in {V7, Absent} :
       /\ store' = [store EXCEPT ![k] = v]
       /\ cwlog' = Append(cwlog,
             [key |-> k, val |-> v, after |-> pc # "list",
              listed |-> \E j \in 1..Len(items) : items[j].key = k,
              deletedBefore |-> \E j \in 1..Len(items) :
                                 items[j].key = k /\ Applied(j)])
  /\ UNCHANGED <<remote, top, pc, fn, caller, src, items, i, grp, cnt, tsize,
                 failed, after, rpos, log, result, pre, msels, mj, mfailed, cntres>>
  /\ UNCHANGED <<origin, lfault, hfailed, hok, mtrace, rtkeys, rtres>>

NextConc == Next \/ ConcurrentWrite
SpecConc == Init /\ [][NextConc]_vars

\* C22 (as stated): multiDelete(selector) deletes a snapshot: a key of the
\* selected range written by another caller after the listing survives and
\* the Result is still ok; a key deleted by another caller after the
\* listing is not reported as failed.
C22_Snapshot ==
  (SelDeleteDone /\ hok) =>
     /\ result.ok
     /\ \A w \in Range(cwlog) :
           (w.after /\ Matches(src[1], w.key) /\ w.val # Absent) => store[w.key] # Absent
\* C22 (amended): with no failing store call the Result is ok (keys deleted
\* by another caller are not failed), and a key written by another caller
\* after the listing (its last write) survives exactly when it was not listed or its own
\* delete had already been applied; a listed key written before its group
\* commits is still deleted.
C22_SnapshotAmended ==
  (SelDeleteDone /\ hok) =>
     /\ result.ok
     /\ \A x \in 1..Len(cwlog) :
           LET w == cwlog[x] IN
           (w.after /\ w.val # Absent /\ \A y \in (x + 1)..Len(cwlog) : cwlog[y].key # w.key) =>
              (store[w.key] # Absent <=> (~w.listed \/ w.deletedBefore))
C22_Witness == SelDeleteDone /\ hok /\ \E w \in Range(cwlog) :
                 /\ w.after /\ ~w.listed /\ Matches(src[1], w.key)
                 /\ w.val # Absent /\ store[w.key] # Absent
====
